---- MODULE Spec2Model ----
(***************************************************************************)
(* Budget ledger of BBudget: week bucketing (utils), load/save/add/remove  *)
(* (storage.ts) and the screen handlers that thread the ledger through    *)
(* React state (App).                                                     *)
(*                                                                         *)
(* Instants are counted in ticks since local midnight of Mon Jan 1 2024;   *)
(* a day has TicksPerDay ticks, tick 0 of a day is 00:00:00.000 and the    *)
(* last tick is 23:59:59.999.  The time zone is fixed and has no DST, so   *)
(* local fields and the ISO (UTC) fields of an instant coincide.  The      *)
(* modelled range lies inside Jan..Mar 2024, so the year never differs.    *)
(***************************************************************************)
EXTENDS Integers, Sequences, FiniteSets, TLC

VARIABLES clock, budgetData, stored, failed, last, inflight, expected, weekCase

vars == <<clock, budgetData, stored, failed, last, inflight, expected, weekCase>>

\* what the serialized handlers of Spec leave alone: the operations awaiting
\* persistence, the transactions the user has added and not deleted, and the
\* date handed to getWeekStart on its own
aux == <<inflight, expected, weekCase>>

\* ---------------------------------------------------------------- bounds
\* TicksPerDay: instants per day; MaxSkew: ticks that may pass during one
\* addTransaction; MaxAmount: largest amount entered; MaxTx: transactions a
\* ledger holds at most; MaxFail: rejected writes in a row; MaxInflight:
\* handlers awaiting persistence at once; MaxWeekDay: last day (counted from
\* Jan 1 2024) handed to getWeekStart on its own
TicksPerDay == 2
MaxSkew == 1
MaxAmount == 1
MaxTx == 2
MaxFail == 1
MaxInflight == 2
MaxWeekDay == 62

\* the instants at which events are observed: the last tick of Sun Jan 28, the
\* first and the last tick of Mon Jan 29, the last tick of Sun Feb 4 and the
\* first tick of Mon Feb 5 (2024): the end of one week, the next week (which
\* spans a month boundary) from its first to its last tick, the start of a third
Instants ==
  {27 * TicksPerDay + (TicksPerDay - 1),
   28 * TicksPerDay, 28 * TicksPerDay + (TicksPerDay - 1),
   34 * TicksPerDay + (TicksPerDay - 1),
   35 * TicksPerDay}
StartClock == CHOOSE t \in Instants : \A u \in Instants : t <= u
Names == {"Coffee"}
Amounts == 1..MaxAmount

\* ------------------------------------------------------- JS Date (local)
MonthLen == <<31, 29, 31>>

RECURSIVE MonthStart(_)
MonthStart(m) == IF m = 0 THEN 0 ELSE MonthStart(m - 1) + MonthLen[m]

Days(t) == t \div TicksPerDay

getMonth(t) ==
  CHOOSE m \in 0..(Len(MonthLen) - 1) :
    MonthStart(m) <= Days(t) /\ Days(t) < MonthStart(m + 1)

getDate(t) == Days(t) - MonthStart(getMonth(t)) + 1

getDay(t) == (Days(t) + 1) % 7

setDate(t, n) == (MonthStart(getMonth(t)) + n - 1) * TicksPerDay + (t % TicksPerDay)

setHoursStart(t) == Days(t) * TicksPerDay

setHoursEnd(t) == Days(t) * TicksPerDay + (TicksPerDay - 1)

toDateString(t) == <<getDay(t), getMonth(t), getDate(t)>>

toISOString(t) == <<getMonth(t), getDate(t), t % TicksPerDay>>

parseDate(s) == (MonthStart(s[1]) + s[2] - 1) * TicksPerDay + s[3]

\* ------------------------------------------------------------- utils.ts
getWeekStart_NoSundayCase(date) ==
  LET day == getDay(date)
      diff == getDate(date) - day + 1
  IN  setHoursStart(setDate(date, diff))

getWeekStart(date) ==
  LET day == getDay(date)
      diff == getDate(date) - day + (IF day = 0 THEN -6 ELSE 1)
  IN  setHoursStart(setDate(date, diff))

getWeekEnd(date) ==
  LET weekStart == getWeekStart(date)
  IN  setHoursEnd(setDate(weekStart, getDate(weekStart) + 6))

isSameWeek(date1, date2) == getWeekStart(date1) = getWeekStart(date2)

isSameDay(date1, date2) == toDateString(date1) = toDateString(date2)

RECURSIVE SumAmounts(_)
SumAmounts(txs) ==
  IF txs = <<>> THEN 0 ELSE txs[1].amount + SumAmounts(Tail(txs))

OnDay(txs, date) == SelectSeq(txs, LAMBDA t : isSameDay(t.timestamp, date))

calculateDailyTotal(txs, date) == SumAmounts(OnDay(txs, date))

InWeek(txs, weekStart) ==
  SelectSeq(txs, LAMBDA t : t.timestamp >= weekStart /\ t.timestamp <= getWeekEnd(weekStart))

calculateWeeklyTotal(txs, weekStart) == SumAmounts(InWeek(txs, weekStart))

createWeekData_DailyOfWeekStart(weekStart, txs, now) ==
  [weekStart |-> weekStart,
   transactions |-> txs,
   dailyTotal |-> calculateDailyTotal(txs, weekStart),
   weeklyTotal |-> calculateWeeklyTotal(txs, weekStart)]

\* now: the instant createWeekData reads from the clock
createWeekData(weekStart, txs, now) ==
  [weekStart |-> weekStart,
   transactions |-> txs,
   dailyTotal |-> calculateDailyTotal(txs, now),
   weeklyTotal |-> calculateWeeklyTotal(txs, weekStart)]

\* ----------------------------------------------------------- storage.ts
\* getItem resolves to null when the key was never written
NoData == [null |-> TRUE]
\* useState<BudgetData | null>(null)
NoLedger == [null |-> TRUE]
NoTx == [id |-> "", name |-> "", amount |-> 0, timestamp |-> 0]

stringifyWeek(w) ==
  [weekStart |-> toISOString(w.weekStart),
   transactions |-> [i \in 1..Len(w.transactions) |->
      [id |-> w.transactions[i].id,
       name |-> w.transactions[i].name,
       amount |-> w.transactions[i].amount,
       timestamp |-> toISOString(w.transactions[i].timestamp)]],
   dailyTotal |-> w.dailyTotal,
   weeklyTotal |-> w.weeklyTotal]

stringify(data) ==
  [currentWeek |-> stringifyWeek(data.currentWeek),
   previousWeeks |-> [i \in 1..Len(data.previousWeeks) |-> stringifyWeek(data.previousWeeks[i])]]

reviveWeek(w) ==
  [weekStart |-> parseDate(w.weekStart),
   transactions |-> [i \in 1..Len(w.transactions) |->
      [id |-> w.transactions[i].id,
       name |-> w.transactions[i].name,
       amount |-> w.transactions[i].amount,
       timestamp |-> parseDate(w.transactions[i].timestamp)]],
   dailyTotal |-> w.dailyTotal,
   weeklyTotal |-> w.weeklyTotal]

loadBudgetData_RawDefault(outcome, data, now) ==
  IF outcome = "ok" /\ data # NoData
  THEN [currentWeek |-> reviveWeek(data.currentWeek),
        previousWeeks |-> [i \in 1..Len(data.previousWeeks) |-> reviveWeek(data.previousWeeks[i])]]
  ELSE [currentWeek |-> createWeekData(now, <<>>, now),
        previousWeeks |-> <<>>]

\* outcome: "ok" (getItem and JSON.parse succeed), "throws" (getItem rejects),
\* "unparsable" (JSON.parse throws); now: the instant read on the default path
loadBudgetData(outcome, data, now) ==
  IF outcome = "ok" /\ data # NoData
  THEN [currentWeek |-> reviveWeek(data.currentWeek),
        previousWeeks |-> [i \in 1..Len(data.previousWeeks) |-> reviveWeek(data.previousWeeks[i])]]
  ELSE [currentWeek |-> createWeekData(getWeekStart(now), <<>>, now),
        previousWeeks |-> <<>>]

saveBudgetData_ClearOnFail(data, ok, old) == IF ok THEN stringify(data) ELSE NoData

\* ok: whether AsyncStorage.setItem resolves; a rejection is caught and logged
saveBudgetData(data, ok, old) == IF ok THEN stringify(data) ELSE old

updateWeek_NoGuard(week, transactionId, targetWeekStart, now) ==
  createWeekData(week.weekStart,
    SelectSeq(week.transactions, LAMBDA t : t.id # transactionId), now)

updateWeek_InvertedFilter(week, transactionId, targetWeekStart, now) ==
  IF ~isSameWeek(week.weekStart, targetWeekStart) THEN week
  ELSE createWeekData(week.weekStart,
         SelectSeq(week.transactions, LAMBDA t : t.id = transactionId), now)

updateWeek(week, transactionId, targetWeekStart, now) ==
  IF ~isSameWeek(week.weekStart, targetWeekStart) THEN week
  ELSE createWeekData(week.weekStart,
         SelectSeq(week.transactions, LAMBDA t : t.id # transactionId), now)

removeTransaction_DropEmpty(currentData, transactionId, weekStartToEdit, now) ==
  LET targetWeekStart == getWeekStart(weekStartToEdit)
  IN  [currentWeek |-> updateWeek(currentData.currentWeek, transactionId, targetWeekStart, now),
       previousWeeks |-> SelectSeq(
          [i \in 1..Len(currentData.previousWeeks) |->
             updateWeek(currentData.previousWeeks[i], transactionId, targetWeekStart, now)],
          LAMBDA w : w.transactions # <<>>)]

removeTransaction(currentData, transactionId, weekStartToEdit, now) ==
  LET targetWeekStart == getWeekStart(weekStartToEdit)
  IN  [currentWeek |-> updateWeek(currentData.currentWeek, transactionId, targetWeekStart, now),
       previousWeeks |-> [i \in 1..Len(currentData.previousWeeks) |->
          updateWeek(currentData.previousWeeks[i], transactionId, targetWeekStart, now)]]

newTransaction(name, amount, tId, tStamp) ==
  [id |-> ToString(tId), name |-> name, amount |-> amount, timestamp |-> tStamp]

addTransaction_Prepend(tx, currentData, today, now) ==
  LET currentWeekStart == getWeekStart(today)
  IN  IF isSameWeek(currentData.currentWeek.weekStart, currentWeekStart)
      THEN [currentWeek |-> createWeekData(currentWeekStart,
                               <<tx>> \o currentData.currentWeek.transactions, now),
            previousWeeks |-> currentData.previousWeeks]
      ELSE [currentWeek |-> createWeekData(currentWeekStart, <<tx>>, now),
            previousWeeks |-> Append(currentData.previousWeeks, currentData.currentWeek)]

addTransaction_Unshift(tx, currentData, today, now) ==
  LET currentWeekStart == getWeekStart(today)
  IN  IF isSameWeek(currentData.currentWeek.weekStart, currentWeekStart)
      THEN [currentWeek |-> createWeekData(currentWeekStart,
                               Append(currentData.currentWeek.transactions, tx), now),
            previousWeeks |-> currentData.previousWeeks]
      ELSE [currentWeek |-> createWeekData(currentWeekStart, <<tx>>, now),
            previousWeeks |-> <<currentData.currentWeek>> \o currentData.previousWeeks]

addTransaction_AlwaysRotate(tx, currentData, today, now) ==
  LET currentWeekStart == getWeekStart(today)
  IN  [currentWeek |-> createWeekData(currentWeekStart, <<tx>>, now),
       previousWeeks |-> Append(currentData.previousWeeks, currentData.currentWeek)]

addTransaction_KeepWeekStart(tx, currentData, today, now) ==
  LET currentWeekStart == getWeekStart(today)
  IN  IF isSameWeek(currentData.currentWeek.weekStart, currentWeekStart)
      THEN [currentWeek |-> createWeekData(currentWeekStart,
                               Append(currentData.currentWeek.transactions, tx), now),
            previousWeeks |-> currentData.previousWeeks]
      ELSE [currentWeek |-> createWeekData(currentData.currentWeek.weekStart, <<tx>>, now),
            previousWeeks |-> Append(currentData.previousWeeks, currentData.currentWeek)]

\* tx: the transaction built at lines 89-94; today: the instant read at line 96;
\* now: the instant createWeekData reads
addTransaction(tx, currentData, today, now) ==
  LET currentWeekStart == getWeekStart(today)
  IN  IF isSameWeek(currentData.currentWeek.weekStart, currentWeekStart)
      THEN [currentWeek |-> createWeekData(currentWeekStart,
                               Append(currentData.currentWeek.transactions, tx), now),
            previousWeeks |-> currentData.previousWeeks]
      ELSE [currentWeek |-> createWeekData(currentWeekStart, <<tx>>, now),
            previousWeeks |-> Append(currentData.previousWeeks, currentData.currentWeek)]

\* ------------------------------------------------------------ the ledger
Buckets(data) == <<data.currentWeek>> \o data.previousWeeks

RECURSIVE CountTx(_)
CountTx(ws) == IF ws = <<>> THEN 0 ELSE Len(ws[1].transactions) + CountTx(Tail(ws))

AllIds(data) ==
  UNION {{Buckets(data)[i].transactions[j].id : j \in 1..Len(Buckets(data)[i].transactions)} :
           i \in 1..Len(Buckets(data))}

Loaded == budgetData # NoLedger

\* an id no add produces (ids are the decimal clock readings of the range)
AbsentId == "0"

\* the last event: its inputs and what it saw of the state it started from
NoOp == [op |-> "none", today |-> 0, tx |-> NoTx, id |-> "", target |-> 0,
         ok |-> TRUE, outcome |-> "", weekBefore |-> 0, countBefore |-> 0,
         failedBefore |-> 0]

Seen(r) == [r EXCEPT !.weekBefore = budgetData.currentWeek.weekStart,
                     !.countBefore = CountTx(Buckets(budgetData)),
                     !.failedBefore = failed]

\* at most MaxFail writes in a row are rejected by the store
CanWrite(ok) == ok \/ failed < MaxFail
Failures(ok) == IF ok THEN 0 ELSE failed + 1

\* no date handed to getWeekStart yet
NoWeek == [date |-> 0, start |-> 0, again |-> 0, done |-> FALSE]

\* -------------------------------------------------------------- actions
Init ==
  /\ clock = StartClock
  /\ budgetData = NoLedger
  /\ stored = NoData
  /\ failed = 0
  /\ last = NoOp
  /\ inflight = <<>>
  /\ expected = {}
  /\ weekCase = NoWeek

\* time passes between two events
Tick ==
  \E t \in Instants :
    /\ t > clock
    /\ clock' = t
    /\ last' = [NoOp EXCEPT !.op = "tick"]
    /\ UNCHANGED <<budgetData, stored, failed>>
    /\ UNCHANGED aux

\* App start: useEffect -> loadData -> loadBudgetData, setBudgetData
LoadData ==
  \E outcome \in {"ok", "throws", "unparsable"} :
    /\ budgetData' = loadBudgetData(outcome, stored, clock)
    /\ last' = [NoOp EXCEPT !.op = "load", !.outcome = outcome, !.today = clock,
                             !.weekBefore = IF Loaded THEN budgetData.currentWeek.weekStart ELSE 0]
    /\ UNCHANGED <<clock, stored, failed>>
    /\ UNCHANGED aux

\* handleAddTransaction: validated input, addTransaction, setBudgetData.
\* The clock is read four times (id, timestamp, today, createWeekData) and
\* may advance between the reads.
HandleAddTransaction ==
  \E name \in Names, amount \in Amounts, ok \in BOOLEAN,
     tStamp, today, now \in {t \in Instants : clock <= t /\ t <= clock + MaxSkew} :
    LET tx == newTransaction(name, amount, clock, tStamp)
        updatedData == addTransaction(tx, budgetData, today, now)
    IN  /\ Loaded
        /\ tStamp <= today /\ today <= now
        /\ CanWrite(ok)
        /\ failed' = Failures(ok)
        /\ CountTx(Buckets(budgetData)) < MaxTx
        /\ clock' = now
        /\ budgetData' = updatedData
        /\ stored' = saveBudgetData(updatedData, ok, stored)
        /\ last' = Seen([NoOp EXCEPT !.op = "add", !.today = today, !.tx = tx, !.ok = ok])
        /\ UNCHANGED aux

\* the Delete button of the confirmation alert: removeTransaction, setBudgetData
HandleDelete ==
  /\ Loaded
  /\ \E id \in AllIds(budgetData) \cup {AbsentId},
        target \in {Buckets(budgetData)[i].weekStart : i \in 1..Len(Buckets(budgetData))} \cup {clock},
        ok \in BOOLEAN :
      LET updated == removeTransaction(budgetData, id, target, clock)
      IN  /\ CanWrite(ok)
          /\ failed' = Failures(ok)
          /\ budgetData' = updated
          /\ stored' = saveBudgetData(updated, ok, stored)
          /\ last' = Seen([NoOp EXCEPT !.op = "remove", !.id = id, !.target = target,
                                       !.today = clock, !.ok = ok])
          /\ UNCHANGED clock
          /\ UNCHANGED aux

Next == Tick \/ LoadData \/ HandleAddTransaction \/ HandleDelete

Spec == Init /\ [][Next]_vars

\* ------------------------------------------- getWeekStart on its own
WeekDates == {d * TicksPerDay + k : d \in 0..MaxWeekDay, k \in 0..(TicksPerDay - 1)}

InitWeek ==
  /\ clock = StartClock
  /\ budgetData = NoLedger
  /\ stored = NoData
  /\ failed = 0
  /\ last = NoOp
  /\ inflight = <<>>
  /\ expected = {}
  /\ \E d \in WeekDates : weekCase = [NoWeek EXCEPT !.date = d]

\* getWeekStart(date), and getWeekStart of its result
ApplyGetWeekStart ==
  /\ ~weekCase.done
  /\ weekCase' = [date |-> weekCase.date,
              start |-> getWeekStart(weekCase.date),
              again |-> getWeekStart(getWeekStart(weekCase.date)),
              done |-> TRUE]
  /\ UNCHANGED <<clock, budgetData, stored, failed, last, inflight, expected>>

NextWeek == ApplyGetWeekStart

SpecWeek == InitWeek /\ [][NextWeek]_vars

\* ------------------------- handlers that overlap at their await (App)
TxOf(data) ==
  UNION {{Buckets(data)[i].transactions[j] : j \in 1..Len(Buckets(data)[i].transactions)} :
           i \in 1..Len(Buckets(data))}

\* ids of the transactions shown, awaited or expected
KnownIds ==
  AllIds(budgetData) \cup {t.id : t \in expected}
    \cup UNION {AllIds(inflight[k].data) : k \in 1..Len(inflight)}

\* App start on an empty store
ConcLoad ==
  /\ ~Loaded
  /\ budgetData' = loadBudgetData("ok", stored, clock)
  /\ UNCHANGED <<clock, stored, failed, last, inflight, expected, weekCase>>

ConcTick ==
  \E t \in Instants :
    /\ t > clock
    /\ clock' = t
    /\ UNCHANGED <<budgetData, stored, failed, last, inflight, expected, weekCase>>

\* handleAddTransaction up to its await: addTransaction has built the updated
\* ledger from the budgetData of the render that created the handler and has
\* called setItem.  The synchronous part reads the clock within one tick (the
\* reads that straddle a tick are HandleAddTransaction's), and each add is of
\* a millisecond that gave no id in use.
BeginAdd ==
  \E name \in Names, amount \in Amounts :
    LET tx == newTransaction(name, amount, clock, clock)
        updatedData == addTransaction(tx, budgetData, clock, clock)
    IN  /\ Loaded
        /\ Len(inflight) < MaxInflight
        /\ Cardinality(expected) < MaxTx
        /\ tx.id \notin KnownIds
        /\ inflight' = Append(inflight, [data |-> updatedData, persisted |-> FALSE])
        /\ expected' = expected \cup {tx}
        /\ UNCHANGED <<clock, budgetData, stored, failed, last, weekCase>>

\* the Delete button up to its await, for a transaction of a displayed week
BeginDelete ==
  /\ Loaded
  /\ Len(inflight) < MaxInflight
  /\ \E i \in 1..Len(Buckets(budgetData)) :
       \E j \in 1..Len(Buckets(budgetData)[i].transactions) :
         LET id == Buckets(budgetData)[i].transactions[j].id
             updated == removeTransaction(budgetData, id, Buckets(budgetData)[i].weekStart, clock)
         IN  /\ inflight' = Append(inflight, [data |-> updated, persisted |-> FALSE])
             /\ expected' = {t \in expected : t.id # id}
             /\ UNCHANGED <<clock, budgetData, stored, failed, last, weekCase>>

\* the store completes the oldest setItem not yet written
WriteDone ==
  \E k \in 1..Len(inflight) :
    /\ ~inflight[k].persisted
    /\ \A h \in 1..(k - 1) : inflight[h].persisted
    /\ stored' = saveBudgetData(inflight[k].data, TRUE, stored)
    /\ inflight' = [inflight EXCEPT ![k].persisted = TRUE]
    /\ UNCHANGED <<clock, budgetData, failed, last, expected, weekCase>>

\* the oldest handler resumes after its await: setBudgetData(updatedData)
Resume ==
  /\ inflight # <<>>
  /\ inflight[1].persisted
  /\ budgetData' = inflight[1].data
  /\ inflight' = Tail(inflight)
  /\ UNCHANGED <<clock, stored, failed, last, expected, weekCase>>

NextConc == ConcLoad \/ ConcTick \/ BeginAdd \/ BeginDelete \/ WriteDone \/ Resume

SpecConc == Init /\ [][NextConc]_vars

\* =============================================================== claims
cur == budgetData.currentWeek
prev == budgetData.previousWeeks
IsAdd == last'.op = "add"
IsRemove == last'.op = "remove"
SameWeekAdd == IsAdd /\ isSameWeek(cur.weekStart, getWeekStart(last'.today))
RotatingAdd == IsAdd /\ ~isSameWeek(cur.weekStart, getWeekStart(last'.today))

\* C1: an add whose clock reading (line 96) falls in the week of currentWeek
\* appends the new transaction as the last element of currentWeek.transactions,
\* creates no bucket and leaves previousWeeks as it was.
C1_SameWeekAddAppends ==
  [][SameWeekAdd =>
        /\ budgetData'.currentWeek.transactions = Append(cur.transactions, last'.tx)
        /\ budgetData'.currentWeek.weekStart = cur.weekStart
        /\ budgetData'.previousWeeks = prev
        /\ Len(Buckets(budgetData')) = Len(Buckets(budgetData))]_vars

C1_Witness ==
  /\ last.op = "add"
  /\ last.weekBefore = getWeekStart(last.today)
  /\ Len(budgetData.currentWeek.transactions) >= 2
  /\ budgetData.currentWeek.transactions[2] = last.tx
  /\ Len(budgetData.previousWeeks) >= 1

\* C2: an add whose clock reading falls in another week than currentWeek's
\* appends exactly the old currentWeek to previousWeeks and starts a current
\* bucket for weekStart(now) that holds only the new transaction.
C2_RotatingAddArchives ==
  [][RotatingAdd =>
        /\ budgetData'.previousWeeks = Append(prev, cur)
        /\ Len(budgetData'.previousWeeks) = Len(prev) + 1
        /\ budgetData'.currentWeek.weekStart = getWeekStart(last'.today)
        /\ budgetData'.currentWeek.transactions = <<last'.tx>>]_vars

C2_Witness ==
  /\ last.op = "add"
  /\ last.weekBefore # getWeekStart(last.today)
  /\ Len(budgetData.previousWeeks) >= 2
  /\ budgetData.previousWeeks[2].weekStart = last.weekBefore
  /\ budgetData.previousWeeks[2].transactions # <<>>
  /\ budgetData.currentWeek.transactions = <<last.tx>>

Matching(data, target) ==
  {i \in 1..Len(Buckets(data)) : Buckets(data)[i].weekStart = getWeekStart(target)}

\* C3: a remove changes only the one bucket whose weekStart is the normalized
\* target week: every other bucket is unchanged, and the number, order and
\* weekStart of the buckets are unchanged.
C3_RemoveTouchesOneBucket ==
  [][IsRemove =>
        /\ Len(Buckets(budgetData')) = Len(Buckets(budgetData))
        /\ Len(budgetData'.previousWeeks) = Len(prev)
        /\ Cardinality(Matching(budgetData, last'.target)) <= 1
        /\ \A i \in 1..Len(Buckets(budgetData)) :
              /\ Buckets(budgetData')[i].weekStart = Buckets(budgetData)[i].weekStart
              /\ i \notin Matching(budgetData, last'.target)
                   => Buckets(budgetData')[i] = Buckets(budgetData)[i]]_vars

C3_Witness ==
  /\ last.op = "remove"
  /\ CountTx(Buckets(budgetData)) < last.countBefore
  /\ Len(budgetData.previousWeeks) >= 1
  /\ Matching(budgetData, last.target) = {2}
  /\ budgetData.currentWeek.transactions # <<>>
  /\ budgetData.currentWeek.dailyTotal # calculateDailyTotal(budgetData.currentWeek.transactions, clock)

\* C4: previousWeeks holds no bucket with currentWeek's weekStart, and at most
\* one bucket of the ledger has the Monday of the current instant as weekStart.
C4_OneBucketPerWeek ==
  Loaded =>
    /\ \A i \in 1..Len(prev) : prev[i].weekStart # cur.weekStart
    /\ Cardinality(Matching(budgetData, clock)) <= 1

C4_Witness ==
  /\ Loaded
  /\ last.op = "add"
  /\ Len(prev) >= 2
  /\ cur.weekStart = getWeekStart(clock)
  /\ Len(cur.transactions) >= 2

InBucketWeek(w) ==
  \A j \in 1..Len(w.transactions) :
    /\ w.weekStart <= w.transactions[j].timestamp
    /\ w.transactions[j].timestamp <= getWeekEnd(w.weekStart)

\* C5: every bucket's weeklyTotal is the sum of the amounts of all its
\* transactions, every transaction of a bucket having its timestamp within
\* the bucket's week.
C5_WeeklyTotalIsSum ==
  Loaded =>
    \A i \in 1..Len(Buckets(budgetData)) :
      /\ Buckets(budgetData)[i].weeklyTotal = SumAmounts(Buckets(budgetData)[i].transactions)
      /\ InBucketWeek(Buckets(budgetData)[i])

IdsOf(w) == {w.transactions[j].id : j \in 1..Len(w.transactions)}

AbsentRemove ==
  /\ IsRemove
  /\ \A i \in Matching(budgetData, last'.target) : last'.id \notin IdsOf(Buckets(budgetData)[i])

\* C6 as claimed: a remove of an id that the targeted bucket does not hold
\* leaves the whole ledger, the targeted bucket's dailyTotal included, as it was.
C6_AbsentRemoveChangesNothing ==
  [][AbsentRemove => budgetData' = budgetData]_vars

\* C6 as amended: a remove of an id that the targeted bucket does not hold
\* keeps every bucket's weekStart, transactions and weeklyTotal and leaves the
\* other buckets untouched; the targeted bucket's dailyTotal becomes the sum
\* of its transactions of the day of the call.
C6_AbsentRemoveKeepsTransactions ==
  [][AbsentRemove =>
        /\ Len(Buckets(budgetData')) = Len(Buckets(budgetData))
        /\ \A i \in 1..Len(Buckets(budgetData)) :
              /\ Buckets(budgetData')[i].weekStart = Buckets(budgetData)[i].weekStart
              /\ Buckets(budgetData')[i].transactions = Buckets(budgetData)[i].transactions
              /\ Buckets(budgetData')[i].weeklyTotal = Buckets(budgetData)[i].weeklyTotal
              /\ IF i \in Matching(budgetData, last'.target)
                 THEN Buckets(budgetData')[i].dailyTotal =
                        calculateDailyTotal(Buckets(budgetData)[i].transactions, last'.today)
                 ELSE Buckets(budgetData')[i].dailyTotal = Buckets(budgetData)[i].dailyTotal]_vars

C6_Witness ==
  /\ last.op = "remove"
  /\ last.id = AbsentId
  /\ Matching(budgetData, last.target) = {1}
  /\ Len(cur.transactions) >= 2
  /\ cur.dailyTotal # SumAmounts(cur.transactions)
  /\ cur.weeklyTotal = SumAmounts(cur.transactions)
  /\ Len(prev) >= 1

LaterWeek == cur.weekStart # getWeekStart(last'.today)

\* C7 as claimed: the first add, and equally the first remove, performed in a
\* week later than currentWeek's moves the old currentWeek into previousWeeks
\* and makes currentWeek.weekStart the Monday of now.
C7_AddOrRemoveArchives ==
  [][((IsAdd \/ IsRemove) /\ LaterWeek) =>
        /\ \E i \in 1..Len(budgetData'.previousWeeks) : budgetData'.previousWeeks[i] = cur
        /\ budgetData'.currentWeek.weekStart = getWeekStart(last'.today)]_vars

\* C7 as amended: the first add performed in a week later than currentWeek's
\* moves the old currentWeek to the end of previousWeeks and makes
\* currentWeek.weekStart the Monday of the instant the add read; a remove
\* performed in a later week archives nothing.
C7_OnlyAddArchives ==
  [][/\ (IsAdd /\ LaterWeek) =>
          /\ Len(budgetData'.previousWeeks) = Len(prev) + 1
          /\ budgetData'.previousWeeks[Len(prev) + 1] = cur
          /\ budgetData'.currentWeek.weekStart = getWeekStart(last'.today)
     /\ (IsRemove /\ LaterWeek) =>
          /\ budgetData'.currentWeek.weekStart = cur.weekStart
          /\ Len(budgetData'.previousWeeks) = Len(prev)]_vars

C7_Witness ==
  /\ last.op = "remove"
  /\ last.weekBefore # getWeekStart(last.today)
  /\ cur.weekStart = last.weekBefore
  /\ CountTx(Buckets(budgetData)) < last.countBefore
  /\ Len(prev) >= 1
  /\ prev[Len(prev)].transactions # <<>>

TxSet(w) == {w.transactions[j] : j \in 1..Len(w.transactions)}

\* C8: across add and remove, previousWeeks only grows by appending: a bucket
\* at index i stays at index i with its weekStart, is not currentWeek again,
\* receives no transaction, and stays even when it holds no transaction.
C8_ArchivedStaysArchived ==
  [][(IsAdd \/ IsRemove) =>
        /\ Len(budgetData'.previousWeeks) >= Len(prev)
        /\ Len(budgetData'.previousWeeks) <= Len(prev) + 1
        /\ \A i \in 1..Len(prev) :
              /\ budgetData'.previousWeeks[i].weekStart = prev[i].weekStart
              /\ budgetData'.currentWeek.weekStart # prev[i].weekStart
              /\ Len(budgetData'.previousWeeks[i].transactions) <= Len(prev[i].transactions)
              /\ TxSet(budgetData'.previousWeeks[i]) \subseteq TxSet(prev[i])]_vars

C8_Witness ==
  /\ last.op = "remove"
  /\ CountTx(Buckets(budgetData)) < last.countBefore
  /\ Len(prev) >= 2
  /\ Matching(budgetData, last.target) = {3}
  /\ prev[2].transactions = <<>>
  /\ cur.transactions # <<>>

IsWrite == IsAdd \/ IsRemove

Result ==
  IF IsAdd THEN addTransaction(last'.tx, budgetData, last'.today, clock')
  ELSE removeTransaction(budgetData, last'.id, last'.target, last'.today)

\* C9: a failed write is swallowed: the handler still ends with the updated
\* ledger in memory and the persisted value is left as it was; a write that
\* succeeds persists the whole in-memory ledger, so that loading it gives the
\* ledger back, mutations whose own write failed included.
C9_FailedWriteSwallowed ==
  [][IsWrite =>
        /\ budgetData' = Result
        /\ ~last'.ok => stored' = stored
        /\ last'.ok => /\ stored' = stringify(budgetData')
                        /\ loadBudgetData("ok", stored', clock') = budgetData']_vars

C9_Witness ==
  /\ last.op = "add"
  /\ last.ok
  /\ last.failedBefore > 0
  /\ last.countBefore >= 1
  /\ Len(prev) >= 1
  /\ stored = stringify(budgetData)

EmptyLedger(now) ==
  [currentWeek |-> [weekStart |-> getWeekStart(now), transactions |-> <<>>,
                    dailyTotal |-> 0, weeklyTotal |-> 0],
   previousWeeks |-> <<>>]

\* C10: a load whose read fails (getItem rejects, or the value does not parse)
\* or finds no value gives the empty ledger of the week of now.
C10_FailedLoadGivesEmptyLedger ==
  (last.op = "load" /\ (last.outcome # "ok" \/ stored = NoData))
     => budgetData = EmptyLedger(clock)

C10_Witness ==
  /\ last.op = "load"
  /\ last.outcome = "unparsable"
  /\ stored # NoData
  /\ budgetData = EmptyLedger(clock)
  /\ clock # getWeekStart(clock)
  /\ last.weekBefore # getWeekStart(clock)

\* the amounts of the transactions of w stamped on the calendar day of instant t
RECURSIVE SumOfDay(_, _)
SumOfDay(txs, t) ==
  IF txs = <<>> THEN 0
  ELSE (IF Days(txs[1].timestamp) = Days(t) THEN txs[1].amount ELSE 0) + SumOfDay(Tail(txs), t)

Rebuilt(i) ==
  \/ IsAdd /\ i = 1
  \/ IsRemove /\ i \in Matching(budgetData, last'.target)

\* C11: a bucket rebuilt by add or remove gets as dailyTotal the sum of the
\* amounts of its transactions stamped on the calendar day of the rebuild
\* instant: all of them when they were all added that day, and 0 for an
\* archived bucket rebuilt by a remove after its week has passed.
C11_DailyTotalOfRebuildDay ==
  [][(IsAdd \/ IsRemove) =>
      \A i \in 1..Len(Buckets(budgetData')) :
        Rebuilt(i) =>
          LET w == Buckets(budgetData')[i]
          IN  /\ w.dailyTotal = SumOfDay(w.transactions, clock')
              /\ (\A j \in 1..Len(w.transactions) :
                     Days(w.transactions[j].timestamp) = Days(clock'))
                   => w.dailyTotal = SumAmounts(w.transactions)
              /\ (i > 1 /\ clock' > getWeekEnd(w.weekStart)) => w.dailyTotal = 0]_vars

C11_Witness ==
  /\ last.op = "remove"
  /\ Matching(budgetData, last.target) = {2}
  /\ prev[1].transactions # <<>>
  /\ clock > getWeekEnd(prev[1].weekStart)
  /\ prev[1].dailyTotal = 0
  /\ cur.transactions # <<>>
  /\ cur.dailyTotal = SumAmounts(cur.transactions)

AllTx(data) ==
  [i \in 1..Len(Buckets(data)) |-> Buckets(data)[i].transactions]

RECURSIVE Flatten(_)
Flatten(ss) == IF ss = <<>> THEN <<>> ELSE ss[1] \o Flatten(Tail(ss))

\* C14: no two transactions of the ledger, over currentWeek and all
\* previousWeeks, share an id (so that a remove takes out at most one).
C14_UniqueIds ==
  Loaded =>
    LET txs == Flatten(AllTx(budgetData))
    IN  \A i, j \in 1..Len(txs) : txs[i].id = txs[j].id => i = j

\* C12: getWeekStart(d) is a Monday at 00:00:00.000, at most 6 days before
\* the day of d (6 days before for a Sunday), getWeekStart of it is itself,
\* and isSameWeek is reflexive, symmetric and transitive.
C12_WeekStartIsMonday ==
  weekCase.done =>
    /\ getDay(weekCase.start) = 1
    /\ weekCase.start % TicksPerDay = 0
    /\ Days(weekCase.date) - Days(weekCase.start) \in 0..6
    /\ getDay(weekCase.date) = 0 => Days(weekCase.date) - Days(weekCase.start) = 6
    /\ weekCase.again = weekCase.start
    /\ isSameWeek(weekCase.date, weekCase.date)
    /\ \A e \in WeekDates :
         /\ isSameWeek(weekCase.date, e) <=> isSameWeek(e, weekCase.date)
         /\ isSameWeek(weekCase.date, e) =>
              \A f \in WeekDates : isSameWeek(e, f) => isSameWeek(weekCase.date, f)

C12_Witness ==
  /\ weekCase.done
  /\ getDay(weekCase.date) = 0
  /\ weekCase.date % TicksPerDay # 0
  /\ getMonth(weekCase.start) # getMonth(weekCase.date)
  /\ Days(weekCase.date) - Days(weekCase.start) = 6

InMemory == TxOf(budgetData)
Persisted == IF stored = NoData THEN {} ELSE TxOf(loadBudgetData("ok", stored, clock))

\* C13: once no handler is awaiting persistence, the ledger in memory and the
\* persisted snapshot hold exactly the transactions added and not deleted.
C13_NoLostUpdate ==
  (Loaded /\ inflight = <<>>) => (InMemory = expected /\ Persisted = expected)

====
